---- MODULE Spec2Model ----
(***************************************************************************)
(* Model of the Socket.IO chat broadcaster (src/socket_server.py).        *)
(*                                                                         *)
(* State: the in-memory registry connected_clients, the room index kept   *)
(* by the Socket.IO server object sio, and the transport session of each  *)
(* connection id.  One action per Socket.IO event handler and per REST    *)
(* endpoint.  last and delivered record what the last operation was       *)
(* called with, what it returned and which connections received its       *)
(* event.                                                                  *)
(*                                                                         *)
(* Library behaviour the handlers rely on:                                 *)
(*  - sio is a socketio.AsyncServer; sio.emit is a coroutine function, so  *)
(*    an emit delivers only when the returned coroutine is awaited;        *)
(*  - sio.enter_room / sio.leave_room are called as plain methods and      *)
(*    update the room index before the next statement runs;                *)
(*  - the server puts a connection in the room named by its own sid before *)
(*    the connect handler runs, and removes it from every room when the    *)
(*    connect handler returns False or after the disconnect handler.       *)
(***************************************************************************)
EXTENDS Integers, Sequences, FiniteSets, TLC

\* ---------------------------------------------------------------- bounds
\* number of connection ids the transport hands out
NumSids == 2

\* ------------------------------------------------- JSON values (Python)
JAbsent == [k |-> "absent", i |-> 0, s |-> ""]
JNone == [k |-> "none", i |-> 0, s |-> ""]
JInt(n) == [k |-> "int", i |-> n, s |-> ""]
JStr(t) == [k |-> "str", i |-> 0, s |-> t]
JBool(b) == [k |-> "bool", i |-> IF b THEN 1 ELSE 0, s |-> ""]

\* dict.get(key, default): v is the value under the key, JAbsent when the
\* key is not in the dict
Get(v, default) == IF v.k = "absent" THEN default ELSE v

\* str(v), as an f-string formats it
PyStr(v) ==
  CASE v.k = "int" -> ToString(v.i)
    [] v.k = "str" -> v.s
    [] v.k = "bool" -> IF v.i = 1 THEN "True" ELSE "False"
    [] OTHER -> "None"

\* bool(v): None, 0, False and "" are falsy
Truthy(v) ==
  \/ v.k \in {"int", "bool"} /\ v.i # 0
  \/ v.k = "str" /\ v.s # ""

\* ------------------------------------------------------------ room names
get_tenant_room_shared(tenant_id) == "tenant_room"

get_tenant_room(tenant_id) == "tenant_" \o PyStr(tenant_id)

get_conversation_room_no_tenant(tenant_id, conversation_id) ==
  "conversation_" \o PyStr(conversation_id)

get_conversation_room_as_tenant(tenant_id, conversation_id) ==
  "tenant_" \o PyStr(conversation_id)

get_conversation_room(tenant_id, conversation_id) ==
  "tenant_" \o PyStr(tenant_id) \o "_conversation_" \o PyStr(conversation_id)

\* ---------------------------------------------------------------- inputs
SidOf(n) == "s" \o ToString(n)
Sids == {SidOf(n) : n \in 1..NumSids}

\* tenants and conversations that connections and REST callers name
TenantIds == {1, 2}
ConvIds == {1, 2}

\* auth payload of a connection handshake: null (auth is None), a value that
\* is not a mapping (isdict = FALSE), or a dict; a missing key is JAbsent
AuthOf(id, tenant, student) ==
  [null |-> FALSE, isdict |-> TRUE, id |-> id, tenant_id |-> tenant,
   isStudent |-> student]
AuthNull == [AuthOf(JAbsent, JAbsent, JAbsent) EXCEPT !.null = TRUE]
AuthBad == [AuthOf(JAbsent, JAbsent, JAbsent) EXCEPT !.isdict = FALSE]
Auths ==
  {AuthNull, AuthBad}
  \cup {AuthOf(JInt(10), JInt(t), IF t = 1 THEN JAbsent ELSE JBool(FALSE)) :
          t \in TenantIds}
  \cup {AuthOf(JInt(10), tv, JAbsent) :
          tv \in {JAbsent, JInt(0), JInt(-1), JStr("1")}}
  \cup {AuthOf(uv, JInt(1), JAbsent) : uv \in {JAbsent, JInt(0)}}

\* data payload of a client event: a value without .get (isdict = FALSE) or
\* a dict; a missing key is JAbsent.  args is the number of payload
\* arguments the event was sent with: the handlers take exactly one
DataOf(conv, tenant) ==
  [isdict |-> TRUE, conversation_id |-> conv, tenant_id |-> tenant,
   args |-> 1]
DataBad == [DataOf(JAbsent, JAbsent) EXCEPT !.isdict = FALSE]
\* an event sent with its name only, as socket.emit("join_conversation")
NoPayload == [DataBad EXCEPT !.args = 0]
ClientConvs ==
  {JAbsent, JInt(0), JStr("1")} \cup {JInt(c) : c \in ConvIds}
Datas ==
  {DataBad}
  \cup {DataOf(c, JAbsent) : c \in ClientConvs}
  \cup {DataOf(JInt(1), JInt(2))}

\* REST bodies: pydantic int fields
RestTenants == TenantIds
RestConvs == ConvIds \cup {0}

\* ----------------------------------------------------------------- state
VARIABLES connected_clients, sio_rooms, eio, last, delivered, probe, snapshot
vars ==
  <<connected_clients, sio_rooms, eio, last, delivered, probe, snapshot>>

\* connected_clients.get("/", {})
Clients ==
  IF "/" \in DOMAIN connected_clients THEN connected_clients["/"] ELSE <<>>
Registered == DOMAIN Clients

\* room=None: the room of every connection of the namespace; no string a
\* caller supplies equals it
NoneRoom == "<None>"

\* members of a room in the server's room index
Members(room) == {s \in Sids : <<room, s>> \in sio_rooms}

InListNever(x, list) == FALSE

InList(x, list) == \E n \in 1..Len(list) : list[n] = x

\* list.remove(x): drops the first occurrence
ListRemoveKeeps(list, x) == list

ListRemove(list, x) ==
  IF ~InList(x, list) THEN list
  ELSE LET n == CHOOSE m \in 1..Len(list) :
                  list[m] = x /\ \A j \in 1..(m - 1) : list[j] # x
       IN SubSeq(list, 1, n - 1) \o SubSeq(list, n + 1, Len(list))

\* what the last operation was and gave back: its return value; for a client
\* handler that went on to act, the connection it acted for (the skip_sid of
\* a relay's emit) and the room it returned (join_conversation) or passed
\* to emit (relays)
Outcome(op, ret, room, sid) ==
  [op |-> op, ret |-> ret, room |-> room, sid |-> sid]
NoLast == Outcome("none", "", "", "")
\* two (tenant id, conversation id) pairs and the room names resolved for them
NoProbe ==
  [t1 |-> JNone, c1 |-> JNone, t2 |-> JNone, c2 |-> JNone, done |-> FALSE,
   conv1 |-> "", conv2 |-> "", ten1 |-> "", ten2 |-> ""]
\* the registry and the room index as they were when one call was about to
\* be made (taken is FALSE until then), and what the call carries: for a
\* client event the connection id and the payload, for a REST request the
\* API key header and the message id of the body
NoSnapshot ==
  [taken |-> FALSE, sid |-> "", data |-> DataBad, key |-> "",
   message_id |-> 0, clients |-> <<>>, rooms |-> {}]

Init ==
  /\ connected_clients = <<>>
  /\ sio_rooms = {}
  /\ eio = [s \in Sids |-> "new"]
  /\ last = NoLast
  /\ delivered = {}
  /\ probe = NoProbe
  /\ snapshot = NoSnapshot

\* ------------------------------------------------------ library (sio)
\* sio.enter_room(sid, room) / sio.leave_room(sid, room) on a room index
enter_room(index, sid, room) == index \cup {<<room, sid>>}
leave_every_room(index, sid, room) == {m \in index : m[2] # sid}
leave_room_empties_room(index, sid, room) == {m \in index : m[1] # room}
leave_room_index(index, sid, room) == index \ {<<room, sid>>}
\* before the connect handler runs, the server puts the connection in the
\* namespace room and in the room named by its sid
manager_connect(index, sid) ==
  enter_room(enter_room(index, sid, NoneRoom), sid, sid)
\* the server drops a connection from every room it is in
drop_sid_keeps_rooms(index, sid) == index

drop_sid_clears_index(index, sid) == {}

drop_sid(index, sid) == {m \in index : m[2] # sid}

\* sio.emit(event, payload, room=room, skip_sid=skip_sid) builds a coroutine;
\* emit is the set of connections it delivers to once it runs
emit(room, skip_sid) == {s \in Members(room) : s # skip_sid}
\* "await coro" runs the coroutine; a coroutine that is created and dropped
\* never runs
Awaited(coro) == coro
\* a dropped coroutine that ran all the same
DroppedButRun(coro) == coro
NeverAwaited(coro) == {}

\* ------------------------------------------------------------- connect
\* lines 497-509: the handler gets past validation (no early return False,
\* no exception caught by the handler's except clause)
ConnectAdmitsAnyDict(auth) == ~auth.null /\ auth.isdict

ConnectAdmits(auth) ==
  LET user_id == Get(auth.id, JNone)
      tenant_id == Get(auth.tenant_id, JInt(0))
  IN /\ auth.null \/ auth.isdict
     /\ ~auth.null
     /\ Truthy(user_id)
     /\ Truthy(tenant_id)
     /\ tenant_id.k \in {"int", "bool"}
     /\ tenant_id.i > 0

\* lines 516-521: the record stored for an admitted connection
ClientInfo(auth) ==
  [user_id |-> Get(auth.id, JNone),
   user_type |-> IF Truthy(Get(auth.isStudent, JBool(TRUE)))
                 THEN "student" ELSE "instructor",
   tenant_id |-> Get(auth.tenant_id, JInt(0)),
   rooms |-> <<>>]

\* one record object shared by every connection
SetClientShared(sid, info) ==
  [ns \in {"/"} |-> [s \in Registered \cup {sid} |-> info]]

SetClient(sid, info) ==
  [ns \in {"/"} |->
     [s \in Registered \cup {sid} |-> IF s = sid THEN info ELSE Clients[s]]]

DelClientKeepsRecord(sid) == connected_clients

DelClient(sid) ==
  [ns \in DOMAIN connected_clients |->
     [s \in Registered \ {sid} |-> Clients[s]]]

\* the connect handler itself; when it returns False the server closes the
\* session and drops the sid from its rooms
on_connect(sid, auth) ==
  /\ IF ConnectAdmits(auth)
     THEN LET info == ClientInfo(auth)
              tenant_room == get_tenant_room(info.tenant_id)
          IN /\ connected_clients' =
                  SetClient(sid, [info EXCEPT !.rooms = <<tenant_room>>])
             /\ sio_rooms' = enter_room(manager_connect(sio_rooms, sid),
                                        sid, tenant_room)
             /\ eio' = [eio EXCEPT ![sid] = "open"]
             /\ last' = Outcome("connect", "True", "", "")
     ELSE /\ sio_rooms' = drop_sid(manager_connect(sio_rooms, sid), sid)
          /\ eio' = [eio EXCEPT ![sid] = "closed"]
          /\ last' = Outcome("connect", "False", "", "")
          /\ UNCHANGED connected_clients
  /\ delivered' = {}
  /\ UNCHANGED <<probe, snapshot>>

\* the transport runs the connect handler once per connection id, when the
\* session opens
connect(sid, auth) ==
  /\ eio[sid] = "new"
  /\ on_connect(sid, auth)

\* ---------------------------------------------------------- disconnect
disconnect(sid) ==
  /\ connected_clients' =
       IF sid \in Registered THEN DelClient(sid) ELSE connected_clients
  /\ sio_rooms' = drop_sid(sio_rooms, sid)
  /\ eio' = [eio EXCEPT ![sid] = IF @ = "open" THEN "closed" ELSE @]
  /\ last' = Outcome("disconnect", "None", "", "")
  /\ delivered' = {}
  /\ UNCHANGED <<probe, snapshot>>

\* ------------------------------------------------ client event handlers
\* tenant a room action runs under: client_info["tenant_id"], whatever the
\* payload carries
HandlerTenantFromPayload(sid, data) ==
  Get(data.tenant_id, Clients[sid].tenant_id)

HandlerTenant(sid, data) == Clients[sid].tenant_id

\* outcome of the checks every room handler starts with
\* ("ok" when it goes on to act).  The handlers are declared (sid, data):
\* called with the sid alone, the call raises TypeError before the body
\* and its try block are entered
RoomActionCheck(sid, data) ==
  IF data.args # 1 THEN "TypeError"
  ELSE IF sid \notin Registered THEN "Client not found"
  ELSE IF ~data.isdict THEN "Failed"
  ELSE IF ~Truthy(Get(data.conversation_id, JNone))
       THEN "Missing conversation_id"
  ELSE "ok"

Refuse(op, why) ==
  /\ last' = Outcome(op, why, "", "")
  /\ delivered' = {}
  /\ UNCHANGED <<connected_clients, sio_rooms, eio, probe, snapshot>>

join_conversation(sid, data) ==
  LET chk == RoomActionCheck(sid, data) IN
  IF chk # "ok" THEN Refuse("join_conversation", chk)
  ELSE LET client_info == Clients[sid]
           tenant_id == HandlerTenant(sid, data)
           conversation_id == Get(data.conversation_id, JNone)
           room_name == get_conversation_room(tenant_id, conversation_id)
       IN /\ last' = Outcome("join_conversation", "success", room_name, sid)
          /\ sio_rooms' = enter_room(sio_rooms, sid, room_name)
          /\ connected_clients' =
               IF InList(room_name, client_info.rooms) THEN connected_clients
               ELSE SetClient(sid, [client_info EXCEPT
                                      !.rooms = Append(@, room_name)])
          /\ delivered' = {}
          /\ UNCHANGED <<eio, probe, snapshot>>

leave_room(sid, data) ==
  LET chk == RoomActionCheck(sid, data) IN
  IF chk # "ok" THEN Refuse("leave_room", chk)
  ELSE LET client_info == Clients[sid]
           tenant_id == HandlerTenant(sid, data)
           conversation_id == Get(data.conversation_id, JNone)
           room_name == get_conversation_room(tenant_id, conversation_id)
           tenant_room == get_tenant_room(tenant_id)
       IN IF room_name = tenant_room
          THEN Refuse("leave_room", "Cannot leave tenant room")
          ELSE /\ last' = Outcome("leave_room", "success", "", sid)
               /\ sio_rooms' = leave_room_index(sio_rooms, sid, room_name)
               /\ connected_clients' =
                    IF InList(room_name, client_info.rooms)
                    THEN SetClient(sid, [client_info EXCEPT
                                           !.rooms = ListRemove(@, room_name)])
                    ELSE connected_clients
               /\ delivered' = {}
               /\ UNCHANGED <<eio, probe, snapshot>>

\* on_typing_status and on_messages_read: same body, different event name
Relay(op, sid, data) ==
  LET chk == RoomActionCheck(sid, data) IN
  IF chk # "ok" THEN Refuse(op, chk)
  ELSE LET tenant_id == HandlerTenant(sid, data)
           conversation_id == Get(data.conversation_id, JNone)
           room == get_conversation_room(tenant_id, conversation_id)
       IN /\ last' = Outcome(op, "success", room, sid)
          /\ delivered' = NeverAwaited(emit(room, sid))
          /\ UNCHANGED <<connected_clients, sio_rooms, eio, probe, snapshot>>

on_typing_status(sid, data) ==
  Relay("on_typing_status", sid, data)

on_messages_read(sid, data) ==
  Relay("on_messages_read", sid, data)

\* the payload a relay hands to sio.emit: the client's dict, given the
\* sender's tenant_id only when the dict has no such key
relay_payload(sid, data) ==
  [data EXCEPT !.tenant_id = Get(@, Clients[sid].tenant_id)]

\* test_message: builds a message from the payload and emits it as
\* "new_message" to the sender's conversation room, sender included
test_message(sid, data) ==
  LET chk == RoomActionCheck(sid, data) IN
  IF chk # "ok" THEN Refuse("test_message", chk)
  ELSE LET tenant_id == Clients[sid].tenant_id
           conversation_id == Get(data.conversation_id, JNone)
           room == get_conversation_room(tenant_id, conversation_id)
       IN /\ last' = Outcome("test_message", "success", room, sid)
          /\ delivered' = NeverAwaited(emit(room, ""))
          /\ UNCHANGED <<connected_clients, sio_rooms, eio, probe, snapshot>>

\* ------------------------------------------------------ REST endpoints
\* the room an ingestion endpoint resolves from the body's ids
IngestRoomSwapped(tenant_id, conversation_id) ==
  get_conversation_room(JInt(conversation_id), JInt(tenant_id))

IngestRoom(tenant_id, conversation_id) ==
  get_conversation_room(JInt(tenant_id), JInt(conversation_id))

\* api_send_message, api_typing_status, api_mark_read: resolve the
\* conversation room from the body and await the emit
Ingest(op, tenant_id, conversation_id) ==
  LET room == IngestRoom(tenant_id, conversation_id)
  IN /\ last' = Outcome(op, "success", "", "")
     /\ delivered' = Awaited(emit(room, ""))
     /\ UNCHANGED <<connected_clients, sio_rooms, eio, probe, snapshot>>

api_send_message(tenant_id, conversation_id) ==
  Ingest("api_send_message", tenant_id, conversation_id)

api_typing_status(tenant_id, conversation_id) ==
  Ingest("api_typing_status", tenant_id, conversation_id)

api_mark_read(tenant_id, conversation_id) ==
  Ingest("api_mark_read", tenant_id, conversation_id)

\* room overrides a caller of /emit can name: none, empty, or the name of
\* any room the server has
RoomOverrides ==
  {JNone, JStr("")}
  \cup {JStr(get_tenant_room(JInt(t))) : t \in TenantIds}
  \cup {JStr(get_conversation_room(JInt(t), JInt(1))) : t \in TenantIds}
  \cup {JStr(SidOf(1))}

\* room /emit sends to
EmitTargetNamespace(tenant_id, override) ==
  IF Truthy(override) THEN override.s ELSE NoneRoom

EmitTarget(tenant_id, override) ==
  IF Truthy(override) THEN override.s ELSE get_tenant_room(JInt(tenant_id))

emit_event(tenant_id, override) ==
  LET room == EmitTarget(tenant_id, override)
  IN /\ last' = Outcome("emit_event", "success", "", "")
     /\ delivered' = Awaited(emit(room, ""))
     /\ UNCHANGED <<connected_clients, sio_rooms, eio, probe, snapshot>>

\* ------------------------------------------------------- specification
Next ==
  \/ \E sid \in Sids, auth \in Auths : connect(sid, auth)
  \/ \E sid \in Sids : disconnect(sid)
  \/ \E sid \in Sids, data \in Datas : join_conversation(sid, data)
  \/ \E sid \in Sids, data \in Datas : leave_room(sid, data)
  \/ \E sid \in Sids, data \in Datas : on_typing_status(sid, data)
  \/ \E sid \in Sids, data \in Datas : on_messages_read(sid, data)
  \/ \E t \in RestTenants, c \in RestConvs : api_send_message(t, c)
  \/ \E t \in RestTenants, c \in RestConvs : api_typing_status(t, c)
  \/ \E t \in RestTenants, c \in RestConvs : api_mark_read(t, c)
  \/ \E t \in RestTenants, o \in RoomOverrides : emit_event(t, o)

Spec == Init /\ [][Next]_vars

\* ------------------------------------------- room naming on its own
\* tenant ids: what REST bodies (any int) and admitted connections carry;
\* the two-digit ids are the concatenations of the one-digit ones
ProbeTenants == {JInt(t) : t \in {-1, 0, 1, 2, 11, 12, 21}}
\* conversation ids: REST ints and what a client payload can carry
ProbeConvs ==
  {JInt(c) : c \in {0, 1, 2, 11, 12}}
  \cup {JStr(""), JStr("1"), JStr("1_conversation_2")}

InitNames ==
  /\ connected_clients = <<>>
  /\ sio_rooms = {}
  /\ eio = [s \in Sids |-> "new"]
  /\ last = NoLast
  /\ delivered = {}
  /\ probe \in {[NoProbe EXCEPT !.t1 = a, !.c1 = b, !.t2 = c, !.c2 = d] :
                  a \in ProbeTenants, b \in ProbeConvs,
                  c \in ProbeTenants, d \in ProbeConvs}
  /\ snapshot = NoSnapshot

resolve_rooms ==
  /\ ~probe.done
  /\ probe' = [probe EXCEPT
                 !.done = TRUE,
                 !.conv1 = get_conversation_room(probe.t1, probe.c1),
                 !.conv2 = get_conversation_room(probe.t2, probe.c2),
                 !.ten1 = get_tenant_room(probe.t1),
                 !.ten2 = get_tenant_room(probe.t2)]
  /\ UNCHANGED <<connected_clients, sio_rooms, eio, last, delivered, snapshot>>

NextNames == resolve_rooms

SpecNames == InitNames /\ [][NextNames]_vars

\* ---------------------------------------------------------------- claims
TenantOf(s) == Clients[s].tenant_id

\* room names as the specification spells them
TenantRoomName(t) == "tenant_" \o ToString(t)
ConversationRoomName(t, c) ==
  "tenant_" \o ToString(t) \o "_conversation_" \o ToString(c)

IngestOps == {"api_send_message", "api_typing_status", "api_mark_read"}
RelayOps == {"on_typing_status", "on_messages_read"}

\* the step is the ingestion endpoint named by last'.op, called with (t, c)
IsIngest(t, c) ==
  \/ last'.op = "api_send_message" /\ api_send_message(t, c)
  \/ last'.op = "api_typing_status" /\ api_typing_status(t, c)
  \/ last'.op = "api_mark_read" /\ api_mark_read(t, c)

\* C1: an event ingested through send-message, typing-status or mark-read
\* for (tenant T, conversation C) is delivered only to connections whose
\* tenant is T, whatever was connected, joined, left or disconnected before.
C1_IngestTenantIsolation ==
  [][last'.op \in IngestOps =>
       \A t \in RestTenants, c \in RestConvs :
         IsIngest(t, c) =>
           \A s \in delivered' : s \in Registered /\ TenantOf(s) = JInt(t)]_vars

\* an ingested event was delivered while a connection of another tenant sat
\* in its own tenant's room for the same conversation id
C1_Witness ==
  /\ last.op \in IngestOps
  /\ \E s \in delivered, x \in Registered \ delivered, c \in ConvIds :
       /\ TenantOf(x) # TenantOf(s)
       /\ s \in Members(get_conversation_room(TenantOf(s), JInt(c)))
       /\ x \in Members(get_conversation_room(TenantOf(x), JInt(c)))

\* C2: an event ingested for (T, C) is delivered to exactly the connections
\* that are registered with tenant T and hold the room
\* tenant_T_conversation_C in their joined rooms.
C2_IngestExactDelivery ==
  [][last'.op \in IngestOps =>
       \A t \in RestTenants, c \in RestConvs :
         IsIngest(t, c) =>
           delivered' =
             {s \in Registered :
                /\ TenantOf(s) = JInt(t)
                /\ InList(ConversationRoomName(t, c), Clients[s].rooms)}]_vars

\* an ingested event reached a connection that joined the conversation while
\* another registered connection that did not hold the room got nothing
C2_Witness ==
  /\ last.op \in IngestOps
  /\ delivered # {}
  /\ Registered \ delivered # {}
  /\ \A s \in delivered : \E c \in ConvIds :
       /\ InList(ConversationRoomName(TenantOf(s).i, c), Clients[s].rooms)
       /\ \E x \in Registered \ delivered :
            /\ TenantOf(x) = TenantOf(s)
            /\ ~InList(ConversationRoomName(TenantOf(s).i, c), Clients[x].rooms)

\* C3: every connection that receives a generic event submitted with tenant
\* id T, with or without a room override, has tenant T.
C3_EmitStaysInTenant ==
  [][last'.op = "emit_event" =>
       \A t \in RestTenants, o \in RoomOverrides :
         emit_event(t, o) =>
           \A s \in delivered' : s \in Registered /\ TenantOf(s) = JInt(t)]_vars

\* C4: a generic event submitted with tenant id T and no room override is
\* delivered to every registered connection of tenant T and to no other.
C4_EmitTenantWide ==
  [][last'.op = "emit_event" =>
       \A t \in RestTenants, o \in {JNone, JStr("")} :
         emit_event(t, o) =>
           delivered' = {s \in Registered : TenantOf(s) = JInt(t)}]_vars

\* a tenant-wide event reached every connection of its tenant, one of them
\* joined to a conversation, and skipped a connection of another tenant
C4_Witness ==
  /\ last.op = "emit_event"
  /\ \E s \in delivered, x \in Registered \ delivered :
       /\ TenantOf(x) # TenantOf(s)
       /\ Len(Clients[s].rooms) > 1
  /\ \A s \in delivered : delivered = {x \in Registered : TenantOf(x) = TenantOf(s)}

\* C5: for tenant ids T1 # T2 and any conversation ids C1, C2 the
\* conversation rooms differ, and so do the tenant-wide rooms.
C5_NoCrossTenantCollision ==
  (probe.done /\ probe.t1 # probe.t2) =>
     /\ probe.conv1 # probe.conv2
     /\ probe.ten1 # probe.ten2

\* rooms resolved for two tenants and one conversation id
C5_Witness ==
  /\ probe.done
  /\ probe.t1 # probe.t2
  /\ probe.c1 = probe.c2

\* C6: for all tenant ids T, T' and every conversation id C,
\* get_conversation_room(T, C) is not get_tenant_room(T').
C6_DistinctNamespaces ==
  probe.done =>
     /\ probe.conv1 # probe.ten1
     /\ probe.conv1 # probe.ten2
     /\ probe.conv2 # probe.ten1
     /\ probe.conv2 # probe.ten2

\* rooms resolved where the conversation id of one pair is the tenant id of
\* the other
C6_Witness ==
  /\ probe.done
  /\ probe.c1 = probe.t2
  /\ probe.t1 # probe.t2

\* the step is the relay handler named by last'.op, called with (sid, data)
IsRelay(sid, data) ==
  \/ last'.op = "on_typing_status" /\ on_typing_status(sid, data)
  \/ last'.op = "on_messages_read" /\ on_messages_read(sid, data)

\* C7: when connection A sends typing_status or messages_read for
\* conversation C, the event is delivered to every other connection in A's
\* tenant room for C and not to A.
C7_RelayReachesPeers ==
  [][(last'.op \in RelayOps /\ last'.ret = "success") =>
       \A data \in Datas :
         IsRelay(last'.sid, data) =>
           delivered' = Members(last'.room) \ {last'.sid}]_vars

\* C8: a broadcast to a room with N members that excludes one of them
\* delivers to exactly N-1 connections.
C8_ExcludeOneDeliversRest ==
  (/\ last.op \in RelayOps
   /\ last.ret = "success"
   /\ last.sid \in Members(last.room)) =>
     Cardinality(delivered) = Cardinality(Members(last.room)) - 1

\* the conversation rooms named after the tenant connection sid registered with
OwnConversationRooms(sid) ==
  {"tenant_" \o PyStr(TenantOf(sid)) \o "_conversation_" \o PyStr(c) :
     c \in ClientConvs}

\* C9: whatever conversation id and payload a connected connection A gives
\* join_conversation, leave_room, typing_status or messages_read, the room
\* entered, left or relayed to is a conversation room named after A's
\* registered tenant, and the relay addresses and reaches no connection of
\* another tenant.
C9_RoomFromRegisteredTenant ==
  [][(last'.ret = "success" /\ last'.sid \in Sids) =>
       LET sid == last'.sid IN
       /\ last'.op = "join_conversation" =>
            /\ last'.room \in OwnConversationRooms(sid)
            /\ sio_rooms' = sio_rooms \cup {<<last'.room, sid>>}
       /\ last'.op = "leave_room" =>
            \E r \in OwnConversationRooms(sid) :
              sio_rooms' = sio_rooms \ {<<r, sid>>}
       /\ last'.op \in RelayOps =>
            /\ last'.room \in OwnConversationRooms(sid)
            /\ \A s \in delivered' \cup emit(last'.room, sid) :
                 TenantOf(s) = TenantOf(sid)]_vars

\* a connection relayed to a conversation whose id a connection of another
\* tenant has joined in its own tenant
C9_Witness ==
  /\ last.op \in RelayOps
  /\ last.ret = "success"
  /\ \E x \in Registered, c \in ConvIds :
       /\ TenantOf(x) # TenantOf(last.sid)
       /\ last.room = ConversationRoomName(TenantOf(last.sid).i, c)
       /\ x \in Members(ConversationRoomName(TenantOf(x).i, c))

\* rooms that encode tenant t: its tenant-wide room and its conversation rooms
RoomsOfTenant(t) ==
  {"tenant_" \o PyStr(t)}
  \cup {"tenant_" \o PyStr(t) \o "_conversation_" \o PyStr(c) : c \in ClientConvs}

\* C10: every room in a connection's joined rooms, in the registry and in
\* the server's room index, encodes that connection's own tenant.
C10_RoomsEncodeOwnTenant ==
  \A s \in Registered :
    /\ \A n \in 1..Len(Clients[s].rooms) :
         Clients[s].rooms[n] \in RoomsOfTenant(TenantOf(s))
    /\ \A m \in sio_rooms :
         m[2] = s => m[1] \in RoomsOfTenant(TenantOf(s)) \cup {NoneRoom, s}

\* two tenants are connected and one connection has joined a conversation
C10_Witness ==
  \E s \in Registered, x \in Registered :
    /\ TenantOf(s) # TenantOf(x)
    /\ Len(Clients[s].rooms) > 1
    /\ Len(Clients[x].rooms) > 1

\* ------------------------------------------------ connection life cycle
ClientOps ==
  {"join_conversation", "leave_room", "on_typing_status", "on_messages_read"}

\* C11: a disconnected connection is in no room and not in the registry, no
\* later event is delivered to it, every join_conversation, leave_room,
\* typing_status or messages_read on its id is answered "Client not found",
\* and a call answered that way changes neither the registry nor the rooms.
C11_DisconnectedIsTerminal ==
  [][/\ \A sid \in Sids :
          eio'[sid] = "closed" =>
            /\ sid \notin Registered'
            /\ \A m \in sio_rooms' : m[2] # sid
            /\ sid \notin delivered'
            /\ \A data \in Datas :
                 RoomActionCheck(sid, data)' = "Client not found"
     /\ \A sid \in Sids : eio[sid] = "closed" => eio'[sid] = "closed"
     /\ last'.ret = "Client not found" =>
          /\ last'.op \in ClientOps
          /\ UNCHANGED <<connected_clients, sio_rooms, eio>>
          /\ delivered' = {}]_vars

\* a handler call on a closed connection id was refused while another
\* connection sits in a conversation room
C11_Witness ==
  /\ last.ret = "Client not found"
  /\ \E sid \in Sids, x \in Registered :
       /\ eio[sid] = "closed"
       /\ Len(Clients[x].rooms) > 1

\* C12: disconnect on an id that is not registered (never connected, refused
\* at connect, or already disconnected) returns normally and leaves the
\* registry, every room membership and the id's session as they were.
C12_DisconnectUnregisteredNoOp ==
  [][last'.op = "disconnect" =>
       \A sid \in Sids \ Registered :
         disconnect(sid) =>
           /\ last'.ret = "None"
           /\ UNCHANGED <<connected_clients, sio_rooms, eio>>]_vars

\* disconnect was called on an id that never connected while a registered
\* connection holds a conversation room
C12_Witness ==
  /\ last.op = "disconnect"
  /\ \A sid \in Sids : eio[sid] \in {"new", "open"}
  /\ \E sid \in Sids : eio[sid] = "new"
  /\ \E x \in Registered : Len(Clients[x].rooms) > 1

\* auth claims without a tenant id, with a tenant id that is not positive,
\* or without a user id
DeficientClaims ==
  {a \in Auths :
     /\ ~a.null
     /\ a.isdict
     /\ \/ a.tenant_id.k = "absent"
        \/ a.tenant_id.k = "int" /\ a.tenant_id.i <= 0
        \/ a.id.k = "absent"}

\* C13: a connect whose auth claims lack a tenant id, carry a non-positive
\* tenant id, or lack a user id returns False, stores no record, leaves the
\* connection in no room and leaves the registry as it was.
C13_DeficientClaimsRefused ==
  [][last'.op = "connect" =>
       \A sid \in Sids, auth \in DeficientClaims :
         connect(sid, auth) =>
           /\ last'.ret = "False"
           /\ sid \notin Registered'
           /\ \A m \in sio_rooms' : m[2] # sid
           /\ UNCHANGED <<connected_clients, sio_rooms>>]_vars

\* a connect was refused while another connection is registered and holds
\* a conversation room
C13_Witness ==
  /\ last.op = "connect"
  /\ last.ret = "False"
  /\ \E sid \in Sids \ Registered : eio[sid] = "closed"
  /\ \E x \in Registered : Len(Clients[x].rooms) > 1

\* the admission check as stated: the claimed tenant id is present and
\* positive and the claimed user id is present
ClaimsPresent(auth) ==
  /\ ~auth.null
  /\ auth.isdict
  /\ auth.tenant_id.k = "int"
  /\ auth.tenant_id.i > 0
  /\ auth.id.k \notin {"absent", "none"}

\* C14: connect is accepted, and the connection registered, if and only if
\* the claimed tenant id is present and positive and the claimed user id is
\* present, whatever the user id's value (0 included).
C14_PresenceIsOnlyAdmissionCheck ==
  [][last'.op = "connect" =>
       \A sid \in Sids, auth \in Auths :
         connect(sid, auth) =>
           /\ last'.ret = "True" <=> ClaimsPresent(auth)
           /\ sid \in Registered' <=> ClaimsPresent(auth)]_vars

\* C15: every registered connection is a member of its tenant-wide room, in
\* the server's room index and in its own joined rooms, after any sequence
\* of join_conversation and leave_room calls; leave_room never answers
\* success for the tenant-wide room.
C15_AlwaysInTenantRoom ==
  /\ \A s \in Registered :
       /\ s \in Members(TenantRoomName(TenantOf(s).i))
       /\ InList(TenantRoomName(TenantOf(s).i), Clients[s].rooms)
  /\ (last.op = "leave_room" /\ last.ret = "success") =>
       /\ last.sid \in Registered
       /\ last.sid \in Members(TenantRoomName(TenantOf(last.sid).i))

\* a connection left a conversation room and still sits in its tenant room
\* while holding no conversation room any more
C15_Witness ==
  /\ last.op = "leave_room"
  /\ last.ret = "success"
  /\ Clients[last.sid].rooms = <<TenantRoomName(TenantOf(last.sid).i)>>
  /\ Members(TenantRoomName(TenantOf(last.sid).i)) = Registered
  /\ Cardinality(Registered) > 1

\* ------------------------------------------------- joining and leaving
\* the room "tenant_<sid's registered tenant>_conversation_<id>" for the
\* conversation id a payload carries
RoomAskedFor(sid, data) ==
  "tenant_" \o PyStr(TenantOf(sid)) \o "_conversation_"
    \o PyStr(data.conversation_id)

\* how many times room occurs in a joined-rooms list
Occurrences(room, rooms) ==
  Cardinality({n \in 1..Len(rooms) : rooms[n] = room})

\* --------------------------------------- a join followed by its leave
\* any history of connects, joins, leaves and disconnects, then one
\* connection sends join_conversation and, right after it, leave_room with
\* the same payload
take_snapshot(sid, data) ==
  /\ ~snapshot.taken
  /\ snapshot' = [NoSnapshot EXCEPT !.taken = TRUE, !.sid = sid,
                                    !.data = data,
                                    !.clients = connected_clients,
                                    !.rooms = sio_rooms]
  /\ last' = NoLast
  /\ delivered' = {}
  /\ UNCHANGED <<connected_clients, sio_rooms, eio, probe>>

NextRoundTrip ==
  \/ ~snapshot.taken /\ \E sid \in Sids, auth \in Auths : connect(sid, auth)
  \/ ~snapshot.taken /\ \E sid \in Sids : disconnect(sid)
  \/ /\ ~snapshot.taken
     /\ \E sid \in Sids, data \in Datas : join_conversation(sid, data)
  \/ ~snapshot.taken /\ \E sid \in Sids, data \in Datas : leave_room(sid, data)
  \/ \E sid \in Sids, data \in Datas : take_snapshot(sid, data)
  \/ /\ snapshot.taken
     /\ last.op = "none"
     /\ join_conversation(snapshot.sid, snapshot.data)
  \/ /\ snapshot.taken
     /\ last.op = "join_conversation"
     /\ leave_room(snapshot.sid, snapshot.data)

SpecRoundTrip == Init /\ [][NextRoundTrip]_vars

\* the join and the leave of the pair both ran and succeeded
RoundTripDone ==
  /\ snapshot.taken
  /\ last.op = "leave_room"
  /\ last.ret = "success"

\* the connection already held the conversation's room before the pair
HeldBefore ==
  <<RoomAskedFor(snapshot.sid, snapshot.data), snapshot.sid>>
    \in snapshot.rooms

\* C17 as stated: join_conversation followed immediately by leave_room on
\* the same conversation returns the registry and the room index to their
\* state before the join, whatever that state was.
C17_RoundTripAnyState ==
  RoundTripDone =>
    /\ connected_clients = snapshot.clients
    /\ sio_rooms = snapshot.rooms

\* C17 amended: join_conversation followed immediately by leave_room on the
\* same conversation returns the registry and the room index to their state
\* before the join when the connection had not joined that conversation
\* before; when it had, the pair ends with that membership removed.
C17_RoundTripFromNonMember ==
  RoundTripDone =>
    LET sid == snapshot.sid
        room == RoomAskedFor(sid, snapshot.data)
    IN IF HeldBefore
       THEN /\ sio_rooms = snapshot.rooms \ {<<room, sid>>}
            /\ Clients[sid].rooms =
                 ListRemove(snapshot.clients["/"][sid].rooms, room)
            /\ \A x \in Registered \ {sid} :
                 Clients[x] = snapshot.clients["/"][x]
       ELSE /\ connected_clients = snapshot.clients
            /\ sio_rooms = snapshot.rooms

\* a connection that held another conversation's room, but not this one,
\* joined and left while a second connection sits in the same room
C17_Witness ==
  /\ RoundTripDone
  /\ ~HeldBefore
  /\ Len(Clients[snapshot.sid].rooms) > 1
  /\ \E x \in Registered \ {snapshot.sid} :
       x \in Members(RoomAskedFor(snapshot.sid, snapshot.data))

\* ------------------------------------------- one call, seen on its own
\* any history of connects, joins, leaves and disconnects, then one
\* connection id sends join_conversation, leave_room, typing_status,
\* messages_read or test_message
NextOneCall ==
  \/ ~snapshot.taken /\ \E sid \in Sids, auth \in Auths : connect(sid, auth)
  \/ ~snapshot.taken /\ \E sid \in Sids : disconnect(sid)
  \/ /\ ~snapshot.taken
     /\ \E sid \in Sids, data \in Datas : join_conversation(sid, data)
  \/ ~snapshot.taken /\ \E sid \in Sids, data \in Datas : leave_room(sid, data)
  \/ \E sid \in Sids, data \in Datas : take_snapshot(sid, data)
  \/ /\ snapshot.taken
     /\ last.op = "none"
     /\ join_conversation(snapshot.sid, snapshot.data)
  \/ /\ snapshot.taken
     /\ last.op = "none"
     /\ leave_room(snapshot.sid, snapshot.data)
  \/ /\ snapshot.taken
     /\ last.op = "none"
     /\ on_typing_status(snapshot.sid, snapshot.data)
  \/ /\ snapshot.taken
     /\ last.op = "none"
     /\ on_messages_read(snapshot.sid, snapshot.data)
  \/ /\ snapshot.taken
     /\ last.op = "none"
     /\ test_message(snapshot.sid, snapshot.data)

SpecOneCall == Init /\ [][NextOneCall]_vars

\* the registry as it was when the snapshot was taken
SnapshotClients ==
  IF "/" \in DOMAIN snapshot.clients THEN snapshot.clients["/"] ELSE <<>>

\* the leave_room call the snapshot was taken for has returned
LeaveDone == snapshot.taken /\ last.op = "leave_room"

\* the payload names a conversation and the connection, registered, held
\* that conversation's room neither in the room index nor in its record
NotMemberBefore ==
  LET sid == snapshot.sid
      conv == snapshot.data.conversation_id
      room == "tenant_" \o PyStr(SnapshotClients[sid].tenant_id)
                \o "_conversation_" \o PyStr(conv)
  IN /\ sid \in DOMAIN SnapshotClients
     /\ snapshot.data.isdict
     /\ conv.k \in {"int", "str"}
     /\ conv \notin {JInt(0), JStr("")}
     /\ <<room, sid>> \notin snapshot.rooms
     /\ Occurrences(room, SnapshotClients[sid].rooms) = 0

duplicate_connect(sid, auth) ==
  /\ sid \in Registered
  /\ on_connect(sid, auth)

NextDuplicate ==
  \/ ~snapshot.taken /\ \E sid \in Sids, auth \in Auths : connect(sid, auth)
  \/ ~snapshot.taken /\ \E sid \in Sids : disconnect(sid)
  \/ /\ ~snapshot.taken
     /\ \E sid \in Sids, data \in Datas : join_conversation(sid, data)
  \/ ~snapshot.taken /\ \E sid \in Sids, data \in Datas : leave_room(sid, data)
  \/ \E sid \in Sids : take_snapshot(sid, DataBad)
  \/ /\ snapshot.taken
     /\ last.op = "none"
     /\ \E auth \in Auths : duplicate_connect(snapshot.sid, auth)

SpecDuplicate == Init /\ [][NextDuplicate]_vars

\* C19: a connect for a connection id that already has a record is refused
\* and leaves the record (tenant, user, role, joined rooms) as it was.
C19_DuplicateConnectRefused ==
  (snapshot.taken /\ last.op = "connect") =>
    /\ last.ret # "True"
    /\ snapshot.sid \in Registered
    /\ Clients[snapshot.sid] = SnapshotClients[snapshot.sid]

\* ------------------------------------------- the two membership indexes
\* every room a record lists has the connection as a member in the server's
\* room index
NoDanglingRoom ==
  \A s \in Registered :
    \A n \in 1..Len(Clients[s].rooms) :
      <<Clients[s].rooms[n], s>> \in sio_rooms

\* C20 as stated: connection s is a member of room r in the server's room
\* index if and only if s has a record whose rooms list contains r.
C20_IndexesMirrored ==
  /\ \A m \in sio_rooms :
       /\ m[2] \in Registered
       /\ Occurrences(m[1], Clients[m[2]].rooms) > 0
  /\ NoDanglingRoom

\* C20 amended: apart from the two rooms the server keeps for every
\* connection by itself (the namespace room and the room named by the
\* connection's own id), s is a member of room r in the server's room index
\* if and only if s has a record whose rooms list contains r; a connection
\* without a record is in no room at all.
C20_AppRoomsMirrored ==
  /\ \A m \in sio_rooms :
       /\ m[2] \in Registered
       /\ m[1] \notin {NoneRoom, m[2]} =>
            Occurrences(m[1], Clients[m[2]].rooms) = 1
  /\ NoDanglingRoom

\* one connection holds two conversation rooms next to its tenant room and
\* another connection has gone
C20_Witness ==
  /\ \E s \in Registered : Len(Clients[s].rooms) > 2
  /\ \E x \in Sids \ Registered : eio[x] = "closed"
  /\ last.op = "leave_room"

\* the join_conversation call the snapshot was taken for has returned
JoinDone == snapshot.taken /\ last.op = "join_conversation"

\* the connection, registered, already listed the room of the conversation
\* the payload names
ListedBefore ==
  /\ snapshot.sid \in DOMAIN SnapshotClients
  /\ snapshot.data.isdict
  /\ Occurrences("tenant_"
                   \o PyStr(SnapshotClients[snapshot.sid].tenant_id)
                   \o "_conversation_"
                   \o PyStr(snapshot.data.conversation_id),
                 SnapshotClients[snapshot.sid].rooms) > 0

\* C16: join_conversation on a conversation the connection has already
\* joined succeeds, returns the same room name, and leaves the connection's
\* joined rooms and the room index exactly as they were, the room listed
\* once.
C16_JoinIdempotent ==
  (JoinDone /\ ListedBefore) =>
    /\ last.ret = "success"
    /\ last.room = RoomAskedFor(snapshot.sid, snapshot.data)
    /\ connected_clients = snapshot.clients
    /\ sio_rooms = snapshot.rooms
    /\ snapshot.sid \in Members(last.room)
    /\ Occurrences(last.room, Clients[snapshot.sid].rooms) = 1

\* a connection holding two conversation rooms joined one of them again,
\* this time naming it by a string id
C16_Witness ==
  /\ JoinDone
  /\ ListedBefore
  /\ last.ret = "success"
  /\ Len(Clients[snapshot.sid].rooms) > 2
  /\ snapshot.data.conversation_id.k = "str"

\* ------------------------------------------------ refusals of one call
\* the room handler call the snapshot was taken for has returned, and the
\* connection was registered and sent a dict
RegisteredCallDone ==
  /\ snapshot.taken
  /\ last.op \in ClientOps
  /\ snapshot.sid \in DOMAIN SnapshotClients
  /\ snapshot.data.isdict

\* C21: a room-targeted event from a registered connection is refused with
\* "Missing conversation_id", changing no membership and delivering
\* nothing, when conversation_id is absent, and succeeds for every
\* conversation id that is present, 0 included.
C21_RefusedOnlyWhenIdAbsent ==
  RegisteredCallDone =>
    IF snapshot.data.conversation_id.k \in {"absent", "none"}
    THEN /\ last.ret = "Missing conversation_id"
         /\ connected_clients = snapshot.clients
         /\ sio_rooms = snapshot.rooms
         /\ delivered = {}
    ELSE last.ret = "success"

\* ---------------------------------------------- REST requests with a key
\* config.API_KEY and the values a caller can put in the X-Tuneup-Api-Key
\* header
ApiKey == "secret"
Keys == {ApiKey, "Secret"}

\* verify_api_key: the dependency every endpoint declares; TRUE when it
\* lets the request through, FALSE when it raises HTTPException(403)
verify_api_key_accepts_all(x_tuneup_api_key) == TRUE

verify_api_key(x_tuneup_api_key) == x_tuneup_api_key = ApiKey

\* the response FastAPI sends when the dependency raises: the endpoint body
\* does not run
http_403(op) ==
  /\ last' = Outcome(op, "403", "", "")
  /\ delivered' = {}
  /\ UNCHANGED <<connected_clients, sio_rooms, eio, probe, snapshot>>

\* body of POST /test-broadcast: data is the JSON body, a dict
test_broadcast(data) ==
  LET conversation_id == Get(data.conversation_id, JInt(1))
      tenant_id == Get(data.tenant_id, JInt(1))
      tenant_room == get_tenant_room(tenant_id)
      conversation_room == get_conversation_room(tenant_id, conversation_id)
  IN /\ last' = Outcome("test_broadcast", "success", "", "")
     /\ delivered' = Awaited(emit(conversation_room, ""))
                       \cup Awaited(emit(tenant_room, ""))
     /\ UNCHANGED <<connected_clients, sio_rooms, eio, probe, snapshot>>

\* bodies POST /test-broadcast is called with
TestDatas == {DataOf(JAbsent, JAbsent), DataOf(JInt(1), JInt(2))}

\* a report that leaves the room lists out
connected_clients_response_no_rooms ==
  LET all_clients ==
        {[sid |-> sid, namespace |-> "/",
          user_id |-> Clients[sid].user_id,
          tenant_id |-> Clients[sid].tenant_id,
          user_type |-> Clients[sid].user_type,
          rooms |-> <<>>] : sid \in Registered}
  IN [total_connected_clients |-> Cardinality(all_clients),
      connected_clients |-> all_clients,
      namespaces |-> DOMAIN connected_clients]

\* what GET /connected-clients builds from the registry
connected_clients_response ==
  LET entries(ns) ==
        {[sid |-> sid, namespace |-> ns,
          user_id |-> connected_clients[ns][sid].user_id,
          tenant_id |-> connected_clients[ns][sid].tenant_id,
          user_type |-> connected_clients[ns][sid].user_type,
          rooms |-> connected_clients[ns][sid].rooms] :
           sid \in DOMAIN connected_clients[ns]}
      all_clients == UNION {entries(ns) : ns \in DOMAIN connected_clients}
  IN [total_connected_clients |-> Cardinality(all_clients),
      connected_clients |-> all_clients,
      namespaces |-> DOMAIN connected_clients]

\* body of GET /connected-clients
get_connected_clients ==
  /\ last' = Outcome("get_connected_clients", "200", "", "")
  /\ delivered' = {}
  /\ UNCHANGED <<connected_clients, sio_rooms, eio, probe, snapshot>>

\* the six endpoints behind their dependency
request_send_message(key, tenant_id, conversation_id) ==
  IF verify_api_key(key) THEN api_send_message(tenant_id, conversation_id)
  ELSE http_403("api_send_message")

request_typing_status(key, tenant_id, conversation_id) ==
  IF verify_api_key(key) THEN api_typing_status(tenant_id, conversation_id)
  ELSE http_403("api_typing_status")

request_mark_read(key, tenant_id, conversation_id) ==
  IF verify_api_key(key) THEN api_mark_read(tenant_id, conversation_id)
  ELSE http_403("api_mark_read")

request_emit(key, tenant_id, override) ==
  IF verify_api_key(key) THEN emit_event(tenant_id, override)
  ELSE http_403("emit_event")

request_test_broadcast(key, data) ==
  IF verify_api_key(key) THEN test_broadcast(data)
  ELSE http_403("test_broadcast")

request_connected_clients(key) ==
  IF verify_api_key(key) THEN get_connected_clients
  ELSE http_403("get_connected_clients")

\* message ids a POST /send-message body carries
MessageIds == {1, 7}

\* a response that carries the id of the schema's example
api_send_message_response_example(message_id) ==
  [success |-> TRUE, message_id |-> 456]

\* what api_send_message returns for a body with this message id
api_send_message_response(message_id) ==
  [success |-> TRUE, message_id |-> message_id]

\* any history of connects, joins, leaves and disconnects, then one REST
\* request
take_request_snapshot(key, message_id) ==
  /\ ~snapshot.taken
  /\ snapshot' = [NoSnapshot EXCEPT !.taken = TRUE, !.key = key,
                                    !.message_id = message_id,
                                    !.clients = connected_clients,
                                    !.rooms = sio_rooms]
  /\ last' = NoLast
  /\ delivered' = {}
  /\ UNCHANGED <<connected_clients, sio_rooms, eio, probe>>

NextOneRequest ==
  \/ ~snapshot.taken /\ \E sid \in Sids, auth \in Auths : connect(sid, auth)
  \/ ~snapshot.taken /\ \E sid \in Sids : disconnect(sid)
  \/ /\ ~snapshot.taken
     /\ \E sid \in Sids, data \in Datas : join_conversation(sid, data)
  \/ ~snapshot.taken /\ \E sid \in Sids, data \in Datas : leave_room(sid, data)
  \/ \E key \in Keys, m \in MessageIds : take_request_snapshot(key, m)
  \/ /\ snapshot.taken
     /\ last.op = "none"
     /\ \E t \in RestTenants, c \in RestConvs :
          request_send_message(snapshot.key, t, c)
  \/ /\ snapshot.taken
     /\ last.op = "none"
     /\ \E t \in RestTenants, c \in RestConvs :
          request_typing_status(snapshot.key, t, c)
  \/ /\ snapshot.taken
     /\ last.op = "none"
     /\ \E t \in RestTenants, c \in RestConvs :
          request_mark_read(snapshot.key, t, c)
  \/ /\ snapshot.taken
     /\ last.op = "none"
     /\ \E t \in RestTenants, o \in RoomOverrides :
          request_emit(snapshot.key, t, o)
  \/ /\ snapshot.taken
     /\ last.op = "none"
     /\ \E data \in TestDatas : request_test_broadcast(snapshot.key, data)
  \/ /\ snapshot.taken
     /\ last.op = "none"
     /\ request_connected_clients(snapshot.key)

SpecOneRequest == Init /\ [][NextOneRequest]_vars

RestOps ==
  IngestOps \cup {"emit_event", "test_broadcast", "get_connected_clients"}

\* the REST request the snapshot was taken for has been answered
RequestDone == snapshot.taken /\ last.op \in RestOps

\* C22: a REST request whose API key header differs from the configured key
\* is answered 403, delivers no event to any connection and leaves the
\* registry and the rooms unchanged.
C22_WrongKeyNoEffect ==
  (RequestDone /\ snapshot.key # ApiKey) =>
    /\ last.ret = "403"
    /\ delivered = {}
    /\ connected_clients = snapshot.clients
    /\ sio_rooms = snapshot.rooms

\* POST /send-message with a wrong key was answered 403 while two
\* connections sit in conversation rooms
C22_Witness ==
  /\ RequestDone
  /\ snapshot.key # ApiKey
  /\ last.op = "api_send_message"
  /\ last.ret = "403"
  /\ \A s \in Sids : s \in Registered /\ Len(Clients[s].rooms) > 1

\* ------------------------------------------------- structured refusals
\* one call as above, of an event sent with a payload or with none
NextAnyCall ==
  \/ NextOneCall
  \/ \E sid \in Sids : take_snapshot(sid, NoPayload)

SpecAnyCall == Init /\ [][NextAnyCall]_vars

\* what a room handler returns from its body or from its except clause:
\* {"success": True, ...} or {"error": ...}
ErrorObjects ==
  {"Client not found", "Missing conversation_id", "Cannot leave tenant room",
   "Failed"}

\* the room handler call the snapshot was taken for is over
CallDone == snapshot.taken /\ last.op \in ClientOps

\* C23: every call of join_conversation, leave_room, typing_status or
\* messages_read, whatever was sent with it (a missing or malformed payload
\* included), ends with a success or an error object, never with an
\* exception, and a call that is refused leaves the registry unchanged
C23_EveryCallAnswered ==
  /\ last.op = "connect" => last.ret \in {"True", "False"}
  /\ CallDone =>
       /\ last.ret \in {"success"} \cup ErrorObjects
       /\ last.ret # "success" => connected_clients = snapshot.clients

\* the same, for the calls that were sent with one payload argument
C23_PayloadCallsAnswered ==
  /\ last.op = "connect" => last.ret \in {"True", "False"}
  /\ (CallDone /\ snapshot.data.args = 1) =>
       /\ last.ret \in {"success"} \cup ErrorObjects
       /\ last.ret # "success" => connected_clients = snapshot.clients

\* ------------------------------------------- one operation of any kind
\* any history of connects, joins, leaves and disconnects, then one client
\* event or one REST request
NextOneOperation ==
  \/ NextOneCall
  \/ NextOneRequest

SpecOneOperation == Init /\ [][NextOneOperation]_vars

\* the client event or REST request the snapshot was taken for is over
OperationDone == snapshot.taken /\ last.op \in ClientOps \cup RestOps

\* C24: no join_conversation, leave_room, typing_status, messages_read or
\* REST operation registers or unregisters a connection or changes a
\* registered connection's tenant, user id or role; the only field such an
\* operation changes is the room list, and only a join_conversation or
\* leave_room changes it, for the connection that sent it
C24_IdentityFixed ==
  OperationDone =>
    /\ Registered = DOMAIN SnapshotClients
    /\ \A sid \in Registered :
         LET now == Clients[sid]
             before == SnapshotClients[sid]
         IN /\ now.tenant_id = before.tenant_id
            /\ now.user_id = before.user_id
            /\ now.user_type = before.user_type
            /\ now.rooms # before.rooms =>
                 /\ last.op \in {"join_conversation", "leave_room"}
                 /\ sid = snapshot.sid

\* a join_conversation changed its sender's room list while a connection
\* of another tenant and role was registered
C24_Witness ==
  /\ OperationDone
  /\ last.op = "join_conversation"
  /\ snapshot.sid \in Registered
  /\ Clients[snapshot.sid].rooms # SnapshotClients[snapshot.sid].rooms
  /\ \E x \in Registered \ {snapshot.sid} :
       /\ Clients[x].tenant_id # Clients[snapshot.sid].tenant_id
       /\ Clients[x].user_type # Clients[snapshot.sid].user_type

\* a REST ingestion was answered while a connection with a joined
\* conversation was registered
C24_RestWitness ==
  /\ OperationDone
  /\ last.op \in IngestOps
  /\ last.ret = "success"
  /\ \E x \in Registered : Len(Clients[x].rooms) > 0

\* ------------------------------------------- the live-connections query
\* the rooms the room index holds sid in, apart from the two the server
\* keeps by itself
JoinedRooms(sid) ==
  {m[1] : m \in {x \in sio_rooms : x[2] = sid}} \ {NoneRoom, sid}

\* GET /connected-clients with the configured key has been answered
QueryDone ==
  /\ RequestDone
  /\ last.op = "get_connected_clients"
  /\ snapshot.key = ApiKey

\* C25: the live-connections query answers with exactly one entry per
\* registered connection, carrying its id, tenant, role and the rooms it has
\* joined, and with a total equal to the number of registered connections;
\* it changes neither the registry nor any room membership
C25_QueryCompleteReadOnly ==
  QueryDone =>
    LET response == connected_clients_response IN
    /\ last.ret = "200"
    /\ {e.sid : e \in response.connected_clients} = Registered
    /\ Cardinality(response.connected_clients) = Cardinality(Registered)
    /\ response.total_connected_clients = Cardinality(Registered)
    /\ \A e \in response.connected_clients :
         /\ e.tenant_id = Clients[e.sid].tenant_id
         /\ e.user_type = Clients[e.sid].user_type
         /\ e.rooms = Clients[e.sid].rooms
         /\ Len(e.rooms) = Cardinality(JoinedRooms(e.sid))
         /\ {e.rooms[n] : n \in 1..Len(e.rooms)} = JoinedRooms(e.sid)
    /\ connected_clients = snapshot.clients
    /\ sio_rooms = snapshot.rooms

\* the query was answered while connections of two tenants were registered,
\* one of them in a conversation room
C25_Witness ==
  /\ QueryDone
  /\ \E s, x \in Registered :
       /\ Clients[s].tenant_id # Clients[x].tenant_id
       /\ Len(Clients[s].rooms) > 1

\* ------------------------------------------ handlers and REST broadcasts
\* C26: in every interleaving of connect, join_conversation, leave_room and
\* disconnect with REST broadcasts, a broadcast that looks its room up after
\* a connection's disconnect has completed does not deliver to that
\* connection, and the room index is consistent in every state: its members
\* are open, registered connections, every room a record lists has the
\* connection as a member, and a room joined through the handlers is listed
\* once in the member's record
C26_BroadcastAfterDisconnect ==
  /\ \A sid \in Sids :
       eio[sid] # "open" =>
         /\ sid \notin delivered
         /\ sid \notin Registered
         /\ \A m \in sio_rooms : m[2] # sid
  /\ \A sid \in delivered : sid \in Members(NoneRoom)
  /\ NoDanglingRoom
  /\ \A m \in sio_rooms :
       m[1] \notin {NoneRoom, m[2]} =>
         Occurrences(m[1], Clients[m[2]].rooms) = 1

\* a REST broadcast delivered to a connection after another connection had
\* disconnected
C26_Witness ==
  /\ last.op \in IngestOps
  /\ delivered # {}
  /\ \E sid \in Sids : eio[sid] = "closed"

\* ------------------------------------------------------- submit message
\* POST /send-message with the configured key has been answered
SendDone ==
  /\ RequestDone
  /\ last.op = "api_send_message"
  /\ snapshot.key = ApiKey

\* C28: an authorized POST /send-message is answered with success true and
\* the message id of its body, whether the room it targets has several
\* members, none, or was never joined by anyone, and it leaves the registry
\* and every room membership as they were
C28_SendAlwaysSucceeds ==
  SendDone =>
    LET response == api_send_message_response(snapshot.message_id) IN
    /\ last.ret = "success"
    /\ response.success
    /\ response.message_id = snapshot.message_id
    /\ connected_clients = snapshot.clients
    /\ sio_rooms = snapshot.rooms

\* the request was answered after delivering to a room of several members
C28_Witness ==
  /\ SendDone
  /\ Cardinality(delivered) > 1

\* the request was answered without a single delivery while connections sit
\* in conversation rooms
C28_EmptyRoomWitness ==
  /\ SendDone
  /\ delivered = {}
  /\ \A s \in Sids : s \in Registered /\ Len(Clients[s].rooms) > 1

\* --------------------------------------------- what clients can trigger
\* the operations whose code emits the event "new_message" (POST /emit emits
\* whatever event name its caller gives)
NewMessageOps ==
  {"api_send_message", "test_broadcast", "emit_event", "test_message"}

RelayDone == CallDone /\ last.op \in RelayOps /\ last.ret = "success"

\* C30: the payload a typing_status or messages_read handler relays carries
\* the tenant_id of the sender's record, whatever tenant_id, if any, the
\* client put in the payload
C30_RelayCarriesOwnTenant ==
  RelayDone =>
    relay_payload(snapshot.sid, snapshot.data).tenant_id
      = Clients[snapshot.sid].tenant_id

\* the same, for the payloads the client sent without a tenant_id
C30_RelayFillsMissingTenant ==
  (RelayDone /\ snapshot.data.tenant_id.k = "absent") =>
    relay_payload(snapshot.sid, snapshot.data).tenant_id
      = Clients[snapshot.sid].tenant_id

\* ------------------------------------- a connect that fails half way
\* the connect handler for an auth that passes validation, with
\* sio.enter_room raising: the record is already stored, the append to its
\* rooms is skipped, the except clause logs and returns False, and the
\* server closes the session and drops the sid from its rooms
connect_enter_room_raises(sid, auth) ==
  /\ eio[sid] = "new"
  /\ ConnectAdmits(auth)
  /\ connected_clients' = SetClient(sid, ClientInfo(auth))
  /\ sio_rooms' = drop_sid(manager_connect(sio_rooms, sid), sid)
  /\ eio' = [eio EXCEPT ![sid] = "closed"]
  /\ last' = Outcome("connect", "False", "", "")
  /\ delivered' = {}
  /\ UNCHANGED <<probe, snapshot>>

\* any history of connects, joins, leaves and disconnects, then one
\* connection id connects, with or without the failure
NextOneConnect ==
  \/ ~snapshot.taken /\ \E sid \in Sids, auth \in Auths : connect(sid, auth)
  \/ ~snapshot.taken /\ \E sid \in Sids : disconnect(sid)
  \/ /\ ~snapshot.taken
     /\ \E sid \in Sids, data \in Datas : join_conversation(sid, data)
  \/ ~snapshot.taken /\ \E sid \in Sids, data \in Datas : leave_room(sid, data)
  \/ \E sid \in Sids : take_snapshot(sid, DataBad)
  \/ /\ snapshot.taken
     /\ last.op = "none"
     /\ \E auth \in Auths : connect(snapshot.sid, auth)
  \/ /\ snapshot.taken
     /\ last.op = "none"
     /\ \E auth \in Auths : connect_enter_room_raises(snapshot.sid, auth)

SpecOneConnect == Init /\ [][NextOneConnect]_vars

\* the connect the snapshot was taken for returned False
ConnectRefused ==
  /\ snapshot.taken
  /\ last.op = "connect"
  /\ last.ret = "False"

\* C31: after a connect that returned False, whether the admission check
\* refused it or an error was raised after the check, the registry holds no
\* record for that connection id
C31_RefusedLeavesNoRecord ==
  ConnectRefused => snapshot.sid \notin Registered

\* ------------------------------------- one operation on one connection
\* any history of connects, joins, leaves and disconnects, then connection
\* id A connects, disconnects or sends one client event
NextOneLifecycle ==
  \/ NextOneCall
  \/ /\ snapshot.taken
     /\ last.op = "none"
     /\ \E auth \in Auths : connect(snapshot.sid, auth)
  \/ /\ snapshot.taken
     /\ last.op = "none"
     /\ disconnect(snapshot.sid)

SpecOneLifecycle == Init /\ [][NextOneLifecycle]_vars

LifecycleOps == {"connect", "disconnect", "join_conversation", "leave_room"}

\* the connect, disconnect, join_conversation or leave_room the snapshot was
\* taken for is over
LifecycleDone == snapshot.taken /\ last.op \in LifecycleOps

\* the rooms an index holds sid in
RoomsIn(index, sid) == {m[1] : m \in {x \in index : x[2] = sid}}

\* C32: a connect, join_conversation, leave_room or disconnect on connection
\* A leaves every other connection registered or not as it was, with the
\* same record (tenant, user, role, rooms) and the same room memberships;
\* and a leave_room of A changes none of A's memberships and none of the
\* entries of A's rooms list other than the room it asked to leave
C32_OthersUndisturbed ==
  LifecycleDone =>
    LET A == snapshot.sid IN
    /\ \A x \in Sids \ {A} :
         /\ x \in Registered <=> x \in DOMAIN SnapshotClients
         /\ x \in Registered => Clients[x] = SnapshotClients[x]
         /\ RoomsIn(sio_rooms, x) = RoomsIn(snapshot.rooms, x)
    /\ (last.op = "leave_room" /\ last.ret # "success") =>
         /\ sio_rooms = snapshot.rooms
         /\ connected_clients = snapshot.clients
    /\ (last.op = "leave_room" /\ last.ret = "success") =>
         LET room == RoomAskedFor(A, snapshot.data) IN
         /\ RoomsIn(sio_rooms, A) \ {room}
              = RoomsIn(snapshot.rooms, A) \ {room}
         /\ SelectSeq(Clients[A].rooms, LAMBDA r : r # room)
              = SelectSeq(SnapshotClients[A].rooms, LAMBDA r : r # room)

\* A left one of two conversations it had joined while another connection
\* sits in the room A left
C32_Witness ==
  /\ LifecycleDone
  /\ last.op = "leave_room"
  /\ last.ret = "success"
  /\ Len(SnapshotClients[snapshot.sid].rooms) > 2
  /\ Len(Clients[snapshot.sid].rooms) = 2
  /\ \E x \in Registered \ {snapshot.sid} :
       x \in Members(RoomAskedFor(snapshot.sid, snapshot.data))

\* A disconnected while another connection sits in a conversation room
C32_DisconnectWitness ==
  /\ LifecycleDone
  /\ last.op = "disconnect"
  /\ snapshot.sid \in DOMAIN SnapshotClients
  /\ \E x \in Registered : Len(Clients[x].rooms) > 1
====
